---- MODULE Spec2Model ----
(***************************************************************************)
(* A model of the deployment service of tacheraSasi/ekilicloud.  The       *)
(* repository holds several stand-alone variants of the same server; each  *)
(* behaviour of this model runs one of them (variable prog):               *)
(*   "main"  src/main.go            builds in place under                  *)
(*                                  static/deployments/<ID>                *)
(*   "copy"  src/unnamed/part_001   builds in a temp dir, copies dist into *)
(*                                  static/deployments/<ID>                *)
(*   "swap"  src/unnamed/part_002   builds in build-<ns>, swaps the shared *)
(*                                  directory static by two renames        *)
(* Every request is one goroutine running deployHandler; pc[r] is its      *)
(* position in the handler.  The file system (disk) is shared and is what  *)
(* the static file server reads at any instant.                            *)
(***************************************************************************)
EXTENDS Integers, Sequences, FiniteSets, TLC

\* ---------------------------------------------------------------- bounds
NumRequests == 2
MaxTime == 1
NumFiles == 2
MaxCrashes == 1
MaxPanics == 1

Requests == 1..NumRequests
Seconds == 0..MaxTime
NoID == -1

VARIABLES
    prog,        \* which variant of the server this behaviour runs
    up,          \* the server process is running
    crashes,     \* how many times the process has died so far
    now,         \* the wall clock, in whole seconds (time.Now())
    deployMutex, \* 0 when unlocked, else the request that holds it
    pc,          \* pc[r]: position of request r in deployHandler
    req,         \* req[r]: the decoded DeployRequest
    dep,         \* dep[r]: the Deployment record of request r
    resp,        \* resp[r]: what has been written to the ResponseWriter
    encoded,     \* encoded[r]: the Deployment records serialized to the caller
    logs,        \* logs[r]: the log lines the handler wrote for r
    disk,        \* disk[p]: the directory tree at path p
    walk,        \* walk[r]: next file of filepath.Walk in copyDir
    cmds,        \* history: the stages request r has started, in order
    results,     \* history: the (output, err) each of those stages ended with
    locked,      \* history: request r has returned from deployMutex.Lock
    entryDisk,   \* history: the disk as request r found it when it got the gate
    pub,         \* history: the publish (swap) in progress or last interrupted
    run          \* one call of runCommand, step by step (see RunSpec)

vars == <<prog, up, crashes, now, deployMutex, pc, req, dep, resp, encoded,
          logs, disk, walk, cmds, results, locked, entryDisk, pub, run>>

\* ------------------------------------------------------------ file system
\* A path is <<directory kind, number>>.
Static == <<"static", 0>>
StaticNew == <<"static_new", 0>>
StaticOld == <<"static_old", 0>>
BuildFolder(r) == <<"build", r>>
TempDir(r) == <<"tmp", r>>
DeploymentDir(id) == <<"deployments", id>>

Paths ==
    {Static, StaticNew, StaticOld}
        \cup {BuildFolder(r) : r \in Requests}
        \cup {TempDir(r) : r \in Requests}
        \cup {DeploymentDir(id) : id \in Seconds}

\* A tree is absent, or a directory holding a set of entries.  An entry
\* records its name, its index among the build output's files and the
\* request whose build wrote it.
Entry(name, idx, r) == [name |-> name, idx |-> idx, by |-> r]
Absent == [exists |-> FALSE, files |-> {}]
EmptyDir == [exists |-> TRUE, files |-> {}]
Dir(files) == [exists |-> TRUE, files |-> files]

\* The build output <workspace>/dist of request r: NumFiles files.
DistFiles(r) == {Entry("dist", i, r) : i \in 1..NumFiles}
HasDist(tree) == tree.exists /\ \E e \in tree.files : e.name = "dist"
\* The tree a complete copy of r's dist makes.
Published(r) == Dir({Entry("file", i, r) : i \in 1..NumFiles})

\* ----------------------------------------------------------------- inputs
\* Strings that the code inspects character by character are sequences of
\* characters.
HttpsRepo == <<"h", "t", "t", "p", "s", ":", "/", "/", "r">>
HttpWord == <<"h", "t", "t", "p">>
EmptyURL == <<>>
RepoURLs == {HttpsRepo, HttpWord, EmptyURL}

\* What git can actually clone: a well-formed URL of an existing repository.
Cloneable(url) == url = HttpsRepo

FrameworkInputs == {"react", "node-prisma", "cobol-web"}

validFrameworks == {"react", "vue", "angular", "svelte", "node-prisma"}

validFrameworksCopy == {"react", "vue", "angular", "svelte", "nextjs", "nuxt"}

NoRequest == [decoded |-> FALSE, RepoURL |-> EmptyURL, Framework |-> ""]
DeployRequest(url, fw) == [decoded |-> TRUE, RepoURL |-> url, Framework |-> fw]

\* ------------------------------------------------------------- Deployment
NoOutputs == [Clone |-> <<>>, Install |-> <<>>, Build |-> <<>>, Prisma |-> <<>>]

\* dep[r] before the handler has built its Deployment (the Go zero value).
NoDeployment ==
    [ID |-> NoID, Status |-> "", RepoURL |-> EmptyURL, Framework |-> "",
     DeployPath |-> <<>>, Outputs |-> NoOutputs, Error |-> <<>>]

NoResponse == [code |-> 0, text |-> ""]
HttpError(text, code) == [code |-> code, text |-> text]

\* -------------------------------------------------------------- commands
\* How an external command ended: its exit ("zero", "nonzero", or "killed"
\* by the context at the deadline) and whether the deadline had passed when
\* runCommand looked at cmdCtx.Err() after CombinedOutput returned.  A
\* command that exits on its own just before the deadline can be found with
\* the deadline passed.
Outcomes ==
    {[exit |-> "zero", deadline |-> FALSE],
     [exit |-> "nonzero", deadline |-> FALSE],
     [exit |-> "killed", deadline |-> TRUE],
     [exit |-> "zero", deadline |-> TRUE]}

\* The error exec.Cmd.CombinedOutput returns.
ExitError(o) ==
    CASE o.exit = "zero" -> "nil"
      [] o.exit = "nonzero" -> "exit status 1"
      [] OTHER -> "signal: killed"

\* The combined output captured until the command ended.
Captured(stage, o) == <<stage, o.exit>>

\* runCommand of main.go and part_001 (context-based).
runCommand(stage, o) ==
    [output |-> Captured(stage, o),
     err |-> IF o.deadline THEN "command timed out" ELSE ExitError(o)]

\* main(): the directories the server creates before it listens.
InitDisk(p) ==
    [q \in Paths |-> IF p = "swap" /\ q = Static THEN EmptyDir ELSE Absent]

\* ------------------------------------------------------------ shared steps
Set(f, r, v) == [f EXCEPT ![r] = v]

\* A Lock that does not wait for the holder.
LockNoWait(r) ==
    /\ deployMutex' = r
    /\ locked' = Set(locked, r, TRUE)
    /\ entryDisk' = Set(entryDisk, r, disk)

\* deployMutex.Lock(): blocks while another request holds the mutex.
Lock(r) ==
    /\ deployMutex = 0
    /\ deployMutex' = r
    /\ locked' = Set(locked, r, TRUE)
    /\ entryDisk' = Set(entryDisk, r, disk)

\* An Unlock written at the end of the success path instead of deferred.
UnlockOnSuccessOnly(r) ==
    /\ pc[r] = "unlock"
    /\ deployMutex' = IF resp[r].code = 200 THEN 0 ELSE deployMutex
    /\ pc' = Set(pc, r, "done")
    /\ req' = Set(req, r, NoRequest)
    /\ dep' = Set(dep, r, NoDeployment)
    /\ encoded' = Set(encoded, r, <<>>)
    /\ walk' = Set(walk, r, 0)
    /\ cmds' = Set(cmds, r, <<>>)
    /\ results' = Set(results, r, <<>>)
    /\ locked' = Set(locked, r, FALSE)
    /\ entryDisk' = Set(entryDisk, r, InitDisk(prog))

\* The deferred deployMutex.Unlock(), run as the handler returns.  With the
\* return the handler's locals are gone; the caller keeps the response.
Unlock(r) ==
    /\ pc[r] = "unlock"
    /\ deployMutex' = 0
    /\ pc' = Set(pc, r, "done")
    /\ req' = Set(req, r, NoRequest)
    /\ dep' = Set(dep, r, NoDeployment)
    /\ encoded' = Set(encoded, r, <<>>)
    /\ walk' = Set(walk, r, 0)
    /\ cmds' = Set(cmds, r, <<>>)
    /\ results' = Set(results, r, <<>>)
    /\ locked' = Set(locked, r, FALSE)
    /\ entryDisk' = Set(entryDisk, r, InitDisk(prog))

\* The clock moves on between any two steps (part_002 names nothing after
\* the second, so its behaviours leave the clock alone).
Tick ==
    /\ prog # "swap" /\ up
    /\ now < MaxTime
    /\ now' = now + 1
    /\ UNCHANGED <<prog, run, up, crashes, deployMutex, pc, req, dep, resp, encoded,
                   logs, disk, walk, cmds, results, locked, entryDisk, pub>>

\* The build workspace of request r in main.go: static/deployments/<ID>.
buildPath(r) == DeploymentDir(dep[r].ID)

\* What a stage's command leaves in the workspace when it exits zero.
SourceTree(r, marker) ==
    {Entry("src", 0, r)}
        \cup (IF marker THEN {Entry("prisma/schema.prisma", 0, r)} ELSE {})

\* "if err != nil { Status = failed; Error = ...; return }" after a stage:
\* the output is stored whatever the outcome, and a failure goes straight
\* to the deferred calls.
\* The same without the return: the handler goes on after a failed stage.
FinishStageNoReturn(r, res, outputs, failMsg, next, exit) ==
    /\ dep' = Set(dep, r,
            IF res.err # "nil"
            THEN [dep[r] EXCEPT !.Outputs = outputs, !.Status = "failed",
                                !.Error = <<failMsg, res.err>>]
            ELSE [dep[r] EXCEPT !.Outputs = outputs])
    /\ results' = Set(results, r, Append(results[r], res))
    /\ pc' = Set(pc, r, next)

\* The same with the output stored after the error test instead of before.
FinishStageDropOutput(r, res, outputs, failMsg, next, exit) ==
    /\ dep' = Set(dep, r,
            IF res.err # "nil"
            THEN [dep[r] EXCEPT !.Status = "failed", !.Error = <<failMsg, res.err>>]
            ELSE [dep[r] EXCEPT !.Outputs = outputs])
    /\ results' = Set(results, r, Append(results[r], res))
    /\ pc' = Set(pc, r, IF res.err # "nil" THEN exit ELSE next)

\* The same with the failure recorded in Status only.
FinishStageNoError(r, res, outputs, failMsg, next, exit) ==
    /\ dep' = Set(dep, r,
            IF res.err # "nil"
            THEN [dep[r] EXCEPT !.Outputs = outputs, !.Status = "failed"]
            ELSE [dep[r] EXCEPT !.Outputs = outputs])
    /\ results' = Set(results, r, Append(results[r], res))
    /\ pc' = Set(pc, r, IF res.err # "nil" THEN exit ELSE next)

FinishStage(r, res, outputs, failMsg, next, exit) ==
    /\ dep' = Set(dep, r,
            IF res.err # "nil"
            THEN [dep[r] EXCEPT !.Outputs = outputs, !.Status = "failed",
                                !.Error = <<failMsg, res.err>>]
            ELSE [dep[r] EXCEPT !.Outputs = outputs])
    /\ results' = Set(results, r, Append(results[r], res))
    /\ pc' = Set(pc, r, IF res.err # "nil" THEN exit ELSE next)

\* A stage's command is started: exec.CommandContext(...).CombinedOutput().
StartStage(r, stage, wait) ==
    /\ pc[r] = stage
    /\ pc' = Set(pc, r, wait)
    /\ cmds' = Set(cmds, r, Append(cmds[r], stage))
    /\ UNCHANGED <<prog, run, up, crashes, now, deployMutex, req, dep, resp, encoded,
                   logs, disk, walk, results, locked, entryDisk, pub>>

\* ------------------------------------------------- main.go: deployHandler
MainLock(r) ==
    /\ prog = "main" /\ up
    /\ pc[r] = "lock"
    /\ Lock(r)
    /\ pc' = Set(pc, r, "decode")
    /\ UNCHANGED <<prog, run, up, crashes, now, req, dep, resp, encoded, logs, disk,
                   walk, cmds, results, pub>>

\* json.NewDecoder(r.Body).Decode(&req)
MainDecode(r) ==
    /\ prog = "main" /\ up
    /\ pc[r] = "decode"
    /\ \/ /\ resp' = Set(resp, r, HttpError("Invalid request payload", 400))
          /\ pc' = Set(pc, r, "unlock")
          /\ UNCHANGED req
       \/ /\ \E url \in RepoURLs, fw \in FrameworkInputs :
                req' = Set(req, r, DeployRequest(url, fw))
          /\ pc' = Set(pc, r, "validate")
          /\ UNCHANGED resp
    /\ UNCHANGED <<prog, run, up, crashes, now, deployMutex, dep, encoded, logs, disk,
                   walk, cmds, results, locked, entryDisk, pub>>

\* The framework test placed after the build directory has been created.
MainValidateAfterMkdir(r) ==
    /\ prog = "main" /\ up
    /\ pc[r] = "validate"
    /\ IF req[r].Framework \notin validFrameworks
       THEN /\ resp' = Set(resp, r, HttpError("Invalid framework", 400))
            /\ disk' = [disk EXCEPT ![DeploymentDir(now)] =
                            IF @.exists THEN @ ELSE EmptyDir]
            /\ pc' = Set(pc, r, "unlock")
       ELSE /\ pc' = Set(pc, r, "create")
            /\ UNCHANGED <<resp, disk>>
    /\ UNCHANGED <<prog, run, up, crashes, now, deployMutex, req, dep, encoded, logs,
                   walk, cmds, results, locked, entryDisk, pub>>

\* if !validFrameworks[req.Framework] { http.Error; return }
MainValidate(r) ==
    /\ prog = "main" /\ up
    /\ pc[r] = "validate"
    /\ IF req[r].Framework \notin validFrameworks
       THEN /\ resp' = Set(resp, r, HttpError("Invalid framework", 400))
            /\ pc' = Set(pc, r, "unlock")
       ELSE /\ pc' = Set(pc, r, "create")
            /\ UNCHANGED resp
    /\ UNCHANGED <<prog, run, up, crashes, now, deployMutex, req, dep, encoded, logs,
                   disk, walk, cmds, results, locked, entryDisk, pub>>

\* deployment := &Deployment{ID: time.Now().Format("20060102-150405"), ...}
\* and DeployPath, set before anything is built.
MainCreate(r) ==
    /\ prog = "main" /\ up
    /\ pc[r] = "create"
    /\ dep' = Set(dep, r,
            [ID |-> now, Status |-> "started", RepoURL |-> req[r].RepoURL,
             Framework |-> req[r].Framework,
             DeployPath |-> <<"/deployments/", now, "/dist/">>,
             Outputs |-> NoOutputs, Error |-> <<>>])
    /\ pc' = Set(pc, r, "mkdir")
    /\ UNCHANGED <<prog, run, up, crashes, now, deployMutex, req, resp, encoded, logs,
                   disk, walk, cmds, results, locked, entryDisk, pub>>

\* os.MkdirAll(buildPath, 0755): succeeds on an existing directory too.
MainMkdir(r) ==
    /\ prog = "main" /\ up
    /\ pc[r] = "mkdir"
    /\ \/ /\ dep' = Set(dep, r,
                [dep[r] EXCEPT !.Status = "failed",
                    !.Error = <<"Failed to create build directory", "mkdir error">>])
          /\ pc' = Set(pc, r, "encode")
          /\ UNCHANGED disk
       \/ /\ disk' = [disk EXCEPT ![buildPath(r)] =
                        IF @.exists THEN @ ELSE EmptyDir]
          /\ pc' = Set(pc, r, "clone")
          /\ UNCHANGED dep
    /\ UNCHANGED <<prog, run, up, crashes, now, deployMutex, req, resp, encoded, logs,
                   walk, cmds, results, locked, entryDisk, pub>>

MainClone(r) == prog = "main" /\ up /\ StartStage(r, "clone", "cloneWait")

\* git clone <RepoURL> <buildPath> ends.  It can exit zero only for a
\* repository that exists, into a directory that is empty.
MainCloneDone(r) ==
    /\ prog = "main" /\ up
    /\ pc[r] = "cloneWait"
    /\ \E o \in Outcomes, marker \in BOOLEAN :
        /\ o.exit = "zero" =>
              Cloneable(req[r].RepoURL) /\ disk[buildPath(r)].files = {}
        /\ o.exit # "zero" => ~marker
        /\ disk' = IF o.exit = "zero"
                   THEN [disk EXCEPT ![buildPath(r)] = Dir(SourceTree(r, marker))]
                   ELSE disk
        /\ LET res == runCommand("clone", o) IN
           FinishStage(r, res,
                       [dep[r].Outputs EXCEPT !.Clone = res.output],
                       "Clone failed", "hook", "encode")
    /\ UNCHANGED <<prog, run, up, crashes, now, deployMutex, req, resp, encoded, logs,
                   walk, cmds, locked, entryDisk, pub>>

\* A hook that goes by the framework alone, without looking for the schema.
MainHookNoStat(r) ==
    /\ prog = "main" /\ up
    /\ pc[r] = "hook"
    /\ pc' = Set(pc, r,
            IF req[r].Framework = "node-prisma" THEN "generate" ELSE "install")
    /\ UNCHANGED <<prog, run, up, crashes, now, deployMutex, req, dep, resp, encoded,
                   logs, disk, walk, cmds, results, locked, entryDisk, pub>>

\* if req.Framework == "node-prisma" { if os.Stat(prisma/schema.prisma) == nil
MainHook(r) ==
    /\ prog = "main" /\ up
    /\ pc[r] = "hook"
    /\ pc' = Set(pc, r,
            IF /\ req[r].Framework = "node-prisma"
               /\ Entry("prisma/schema.prisma", 0, r) \in disk[buildPath(r)].files
            THEN "generate" ELSE "install")
    /\ UNCHANGED <<prog, run, up, crashes, now, deployMutex, req, dep, resp, encoded,
                   logs, disk, walk, cmds, results, locked, entryDisk, pub>>

MainGenerate(r) == prog = "main" /\ up /\ StartStage(r, "generate", "generateWait")

\* npx prisma generate ends.
MainGenerateDone(r) ==
    /\ prog = "main" /\ up
    /\ pc[r] = "generateWait"
    /\ \E o \in Outcomes :
        /\ disk' = IF o.exit = "zero"
                   THEN [disk EXCEPT ![buildPath(r)] =
                            Dir(@.files \cup {Entry("prisma-client", 0, r)})]
                   ELSE disk
        /\ LET res == runCommand("generate", o) IN
           FinishStage(r, res,
                       [dep[r].Outputs EXCEPT !.Prisma = res.output],
                       "Prisma generate failed", "migrate", "encode")
    /\ UNCHANGED <<prog, run, up, crashes, now, deployMutex, req, resp, encoded, logs,
                   walk, cmds, locked, entryDisk, pub>>

MainMigrate(r) == prog = "main" /\ up /\ StartStage(r, "migrate", "migrateWait")

\* npx prisma migrate deploy ends: its output is appended to Outputs.Prisma.
MainMigrateDone(r) ==
    /\ prog = "main" /\ up
    /\ pc[r] = "migrateWait"
    /\ \E o \in Outcomes :
        LET res == runCommand("migrate", o) IN
        FinishStage(r, res,
                    [dep[r].Outputs EXCEPT !.Prisma = @ \o <<"\n">> \o res.output],
                    "Prisma migrate failed", "install", "encode")
    /\ UNCHANGED <<prog, run, up, crashes, now, deployMutex, req, resp, encoded, logs,
                   disk, walk, cmds, locked, entryDisk, pub>>

MainInstall(r) == prog = "main" /\ up /\ StartStage(r, "install", "installWait")

\* npm install ends.
MainInstallDone(r) ==
    /\ prog = "main" /\ up
    /\ pc[r] = "installWait"
    /\ \E o \in Outcomes :
        /\ disk' = IF o.exit = "zero"
                   THEN [disk EXCEPT ![buildPath(r)] =
                            Dir(@.files \cup {Entry("node_modules", 0, r)})]
                   ELSE disk
        /\ LET res == runCommand("install", o) IN
           FinishStage(r, res,
                       [dep[r].Outputs EXCEPT !.Install = res.output],
                       "npm install failed", "build", "encode")
    /\ UNCHANGED <<prog, run, up, crashes, now, deployMutex, req, resp, encoded, logs,
                   walk, cmds, locked, entryDisk, pub>>

MainBuild(r) == prog = "main" /\ up /\ StartStage(r, "build", "buildWait")

\* npm run build ends.  A build that exits zero may or may not have written
\* <buildPath>/dist, which is why the handler verifies it.
MainBuildDone(r) ==
    /\ prog = "main" /\ up
    /\ pc[r] = "buildWait"
    /\ \E o \in Outcomes, dist \in BOOLEAN :
        /\ o.exit # "zero" => ~dist
        /\ disk' = IF dist
                   THEN [disk EXCEPT ![buildPath(r)] =
                            Dir(@.files \cup DistFiles(r))]
                   ELSE disk
        /\ LET res == runCommand("build", o) IN
           FinishStage(r, res,
                       [dep[r].Outputs EXCEPT !.Build = res.output],
                       "npm build failed", "verify", "encode")
    /\ UNCHANGED <<prog, run, up, crashes, now, deployMutex, req, resp, encoded, logs,
                   walk, cmds, locked, entryDisk, pub>>

\* A verify stage that forgets the last line, deployment.Status = "success".
MainVerifyKeepsStarted(r) ==
    /\ prog = "main" /\ up
    /\ pc[r] = "verify"
    /\ cmds' = Set(cmds, r, Append(cmds[r], "verify"))
    /\ LET err == IF HasDist(disk[buildPath(r)]) THEN "nil" ELSE "no such file" IN
        /\ results' = Set(results, r, Append(results[r], [output |-> <<>>, err |-> err]))
        /\ dep' = Set(dep, r,
                IF err # "nil"
                THEN [dep[r] EXCEPT !.Status = "failed",
                                    !.Error = <<"Build output missing", err>>]
                ELSE dep[r])
    /\ pc' = Set(pc, r, "encode")
    /\ UNCHANGED <<prog, run, up, crashes, now, deployMutex, req, resp, encoded, logs,
                   disk, walk, locked, entryDisk, pub>>

\* if _, err := os.Stat(deployPath); err != nil { failed } ; Status = success
MainVerify(r) ==
    /\ prog = "main" /\ up
    /\ pc[r] = "verify"
    /\ cmds' = Set(cmds, r, Append(cmds[r], "verify"))
    /\ LET err == IF HasDist(disk[buildPath(r)]) THEN "nil" ELSE "no such file" IN
        /\ results' = Set(results, r, Append(results[r], [output |-> <<>>, err |-> err]))
        /\ dep' = Set(dep, r,
                IF err # "nil"
                THEN [dep[r] EXCEPT !.Status = "failed",
                                    !.Error = <<"Build output missing", err>>]
                ELSE [dep[r] EXCEPT !.Status = "success"])
    /\ pc' = Set(pc, r, "encode")
    /\ UNCHANGED <<prog, run, up, crashes, now, deployMutex, req, resp, encoded, logs,
                   disk, walk, locked, entryDisk, pub>>

\* The deferred json.NewEncoder(w).Encode(deployment).
MainEncode(r) ==
    /\ prog = "main" /\ up
    /\ pc[r] = "encode"
    /\ resp' = Set(resp, r, [code |-> 200, text |-> "application/json"])
    /\ encoded' = Set(encoded, r, Append(encoded[r], dep[r]))
    /\ pc' = Set(pc, r, "unlock")
    /\ UNCHANGED <<prog, run, up, crashes, now, deployMutex, req, dep, logs, disk, walk,
                   cmds, results, locked, entryDisk, pub>>

MainUnlock(r) ==
    /\ prog = "main" /\ up
    /\ Unlock(r)
    /\ UNCHANGED <<prog, run, up, crashes, now, resp, logs, disk, pub>>

MainStep(r) ==
    \/ MainLock(r) \/ MainDecode(r) \/ MainValidate(r) \/ MainCreate(r)
    \/ MainMkdir(r) \/ MainClone(r) \/ MainCloneDone(r) \/ MainHook(r)
    \/ MainGenerate(r) \/ MainGenerateDone(r) \/ MainMigrate(r)
    \/ MainMigrateDone(r) \/ MainInstall(r) \/ MainInstallDone(r)
    \/ MainBuild(r) \/ MainBuildDone(r) \/ MainVerify(r) \/ MainEncode(r)
    \/ MainUnlock(r)

\* ------------------------------------------ part_002: the swap-based server
\* runCommand of part_002 (goroutine-based): select takes the done channel,
\* or ctx.Done(), and on that branch returns nil for the output.
runCommandGo(stage, o) ==
    IF o.deadline
    THEN [output |-> <<>>, err |-> "command timed out"]
    ELSE [output |-> Captured(stage, o), err |-> ExitError(o)]

\* !(len(req.RepoURL) > 3 && req.RepoURL[:4] == "http")
ValidRepoURL(url) == Len(url) > 3 /\ SubSeq(url, 1, 4) = <<"h", "t", "t", "p">>

\* http.Error(w, text, code) with its log line, then return.
SwapFail(r, text, code, line, exit) ==
    /\ resp' = Set(resp, r, HttpError(text, code))
    /\ logs' = Set(logs, r, Append(logs[r], line))
    /\ pc' = Set(pc, r, exit)

\* A file-system call of the publish is recorded with the error it returned.
Did(r, op, err) ==
    /\ cmds' = Set(cmds, r, Append(cmds[r], op))
    /\ results' = Set(results, r, Append(results[r], [output |-> <<>>, err |-> err]))

SwapLock(r) ==
    /\ prog = "swap" /\ up
    /\ pc[r] = "lock"
    /\ Lock(r)
    /\ pc' = Set(pc, r, "auth")
    /\ UNCHANGED <<prog, run, up, crashes, now, req, dep, resp, encoded, logs, disk,
                   walk, cmds, results, pub>>

\* if apiKey != os.Getenv("DEPLOY_API_KEY") { 401 }
SwapAuth(r) ==
    /\ prog = "swap" /\ up
    /\ pc[r] = "auth"
    /\ \/ SwapFail(r, "Unauthorized", 401, "Unauthorized deployment attempt", "unlock")
       \/ pc' = Set(pc, r, "decode") /\ UNCHANGED <<resp, logs>>
    /\ UNCHANGED <<prog, run, up, crashes, now, deployMutex, req, dep, encoded, disk,
                   walk, cmds, results, locked, entryDisk, pub>>

SwapDecode(r) ==
    /\ prog = "swap" /\ up
    /\ pc[r] = "decode"
    /\ \/ /\ SwapFail(r, "Invalid request payload", 400, "Invalid payload", "unlock")
          /\ UNCHANGED req
       \/ /\ \E url \in RepoURLs : req' = Set(req, r, DeployRequest(url, ""))
          /\ pc' = Set(pc, r, "validate")
          /\ UNCHANGED <<resp, logs>>
    /\ UNCHANGED <<prog, run, up, crashes, now, deployMutex, dep, encoded, disk, walk,
                   cmds, results, locked, entryDisk, pub>>

SwapValidate(r) ==
    /\ prog = "swap" /\ up
    /\ pc[r] = "validate"
    /\ IF ~ValidRepoURL(req[r].RepoURL)
       THEN SwapFail(r, "Invalid repository URL", 400, "Invalid RepoURL", "unlock")
       ELSE pc' = Set(pc, r, "mkdir") /\ UNCHANGED <<resp, logs>>
    /\ UNCHANGED <<prog, run, up, crashes, now, deployMutex, req, dep, encoded, disk,
                   walk, cmds, results, locked, entryDisk, pub>>

\* os.Mkdir(buildFolder, 0755); defer os.RemoveAll(buildFolder)
SwapMkdir(r) ==
    /\ prog = "swap" /\ up
    /\ pc[r] = "mkdir"
    /\ \/ /\ SwapFail(r, "Failed to create build directory", 500, "Mkdir error", "unlock")
          /\ UNCHANGED disk
       \/ /\ ~disk[BuildFolder(r)].exists
          /\ disk' = [disk EXCEPT ![BuildFolder(r)] = EmptyDir]
          /\ pc' = Set(pc, r, "clone")
          /\ UNCHANGED <<resp, logs>>
    /\ UNCHANGED <<prog, run, up, crashes, now, deployMutex, req, dep, encoded, walk,
                   cmds, results, locked, entryDisk, pub>>

\* "if err != nil { log; http.Error(500); return }" after a command.
SwapFinish(r, res, text, line, next) ==
    /\ results' = Set(results, r, Append(results[r], res))
    /\ IF res.err # "nil"
       THEN SwapFail(r, text, 500, line, "rmBuild")
       ELSE pc' = Set(pc, r, next) /\ UNCHANGED <<resp, logs>>

SwapClone(r) == prog = "swap" /\ up /\ StartStage(r, "clone", "cloneWait")

SwapCloneDone(r) ==
    /\ prog = "swap" /\ up
    /\ pc[r] = "cloneWait"
    /\ \E o \in Outcomes, pkg \in BOOLEAN :
        /\ o.exit = "zero" => Cloneable(req[r].RepoURL)
        /\ o.exit # "zero" => ~pkg
        /\ disk' = IF o.exit = "zero"
                   THEN [disk EXCEPT ![BuildFolder(r)] =
                            Dir({Entry("src", 0, r)} \cup
                                (IF pkg THEN {Entry("package.json", 0, r)} ELSE {}))]
                   ELSE disk
        /\ SwapFinish(r, runCommandGo("clone", o), "Failed to clone repository",
                      "Clone failed", "checkPkg")
    /\ UNCHANGED <<prog, run, up, crashes, now, deployMutex, req, dep, encoded, walk,
                   cmds, locked, entryDisk, pub>>

\* if os.Stat(package.json) IsNotExist { 400 }
SwapCheckPkg(r) ==
    /\ prog = "swap" /\ up
    /\ pc[r] = "checkPkg"
    /\ IF Entry("package.json", 0, r) \notin disk[BuildFolder(r)].files
       THEN SwapFail(r, "No package.json found", 400, "No package.json in repository",
                     "rmBuild")
       ELSE pc' = Set(pc, r, "install") /\ UNCHANGED <<resp, logs>>
    /\ UNCHANGED <<prog, run, up, crashes, now, deployMutex, req, dep, encoded, disk,
                   walk, cmds, results, locked, entryDisk, pub>>

SwapInstall(r) == prog = "swap" /\ up /\ StartStage(r, "install", "installWait")

SwapInstallDone(r) ==
    /\ prog = "swap" /\ up
    /\ pc[r] = "installWait"
    /\ \E o \in Outcomes :
        /\ disk' = IF o.exit = "zero"
                   THEN [disk EXCEPT ![BuildFolder(r)] =
                            Dir(@.files \cup {Entry("node_modules", 0, r)})]
                   ELSE disk
        /\ SwapFinish(r, runCommandGo("install", o), "npm install failed",
                      "npm install failed", "build")
    /\ UNCHANGED <<prog, run, up, crashes, now, deployMutex, req, dep, encoded, walk,
                   cmds, locked, entryDisk, pub>>

SwapBuild(r) == prog = "swap" /\ up /\ StartStage(r, "build", "buildWait")

SwapBuildDone(r) ==
    /\ prog = "swap" /\ up
    /\ pc[r] = "buildWait"
    /\ \E o \in Outcomes, dist \in BOOLEAN :
        /\ o.exit # "zero" => ~dist
        /\ disk' = IF dist
                   THEN [disk EXCEPT ![BuildFolder(r)] = Dir(@.files \cup DistFiles(r))]
                   ELSE disk
        /\ SwapFinish(r, runCommandGo("build", o), "npm build failed",
                      "npm build failed", "verify")
    /\ UNCHANGED <<prog, run, up, crashes, now, deployMutex, req, dep, encoded, walk,
                   cmds, locked, entryDisk, pub>>

\* if os.Stat(distPath) IsNotExist { 500 }
SwapVerify(r) ==
    /\ prog = "swap" /\ up
    /\ pc[r] = "verify"
    /\ IF ~HasDist(disk[BuildFolder(r)])
       THEN SwapFail(r, "Build output 'dist' not found", 500, "Build output missing",
                     "rmBuild")
       ELSE pc' = Set(pc, r, "rmNew") /\ UNCHANGED <<resp, logs>>
    /\ UNCHANGED <<prog, run, up, crashes, now, deployMutex, req, dep, encoded, disk,
                   walk, cmds, results, locked, entryDisk, pub>>

\* os.RemoveAll("static_new")
SwapRmNew(r) ==
    /\ prog = "swap" /\ up
    /\ pc[r] = "rmNew"
    /\ disk' = [disk EXCEPT ![StaticNew] = Absent]
    /\ walk' = Set(walk, r, 0)
    /\ pc' = Set(pc, r, "copy")
    /\ UNCHANGED <<prog, run, up, crashes, now, deployMutex, req, dep, resp, encoded,
                   logs, cmds, results, locked, entryDisk, pub>>

\* One visit of filepath.Walk in copyDir(distPath, "static_new"): the root
\* first (MkdirAll of the destination), then the files one by one; any
\* visit can fail, which ends the walk with what was copied so far.
copyDir(r, dst, ok) ==
    IF ~ok THEN disk
    ELSE IF walk[r] = 0 THEN [disk EXCEPT ![dst] = IF @.exists THEN @ ELSE EmptyDir]
    ELSE [disk EXCEPT ![dst] =
            Dir({e \in @.files : e.idx # walk[r]} \cup {Entry("file", walk[r], r)})]

\* A copy of dist made straight into the serving directory.
SwapCopyIntoStatic(r) ==
    /\ prog = "swap" /\ up
    /\ pc[r] = "copy"
    /\ \E ok \in BOOLEAN :
        /\ disk' = [copyDir(r, Static, ok) EXCEPT ![StaticNew] =
                        IF ok THEN copyDir(r, StaticNew, ok)[StaticNew] ELSE @]
        /\ IF ~ok
           THEN /\ SwapFail(r, "Failed to prepare deployment", 500, "Copy failed",
                            "rmBuild")
                /\ UNCHANGED walk
           ELSE /\ walk' = Set(walk, r, walk[r] + 1)
                /\ pc' = Set(pc, r, IF walk[r] = NumFiles THEN "rmOld" ELSE "copy")
                /\ UNCHANGED <<resp, logs>>
    /\ UNCHANGED <<prog, run, up, crashes, now, deployMutex, req, dep, encoded, cmds,
                   results, locked, entryDisk, pub>>

SwapCopy(r) ==
    /\ prog = "swap" /\ up
    /\ pc[r] = "copy"
    /\ \E ok \in BOOLEAN :
        /\ disk' = copyDir(r, StaticNew, ok)
        /\ IF ~ok
           THEN /\ SwapFail(r, "Failed to prepare deployment", 500, "Copy failed",
                            "rmBuild")
                /\ UNCHANGED walk
           ELSE /\ walk' = Set(walk, r, walk[r] + 1)
                /\ pc' = Set(pc, r, IF walk[r] = NumFiles THEN "rmOld" ELSE "copy")
                /\ UNCHANGED <<resp, logs>>
    /\ UNCHANGED <<prog, run, up, crashes, now, deployMutex, req, dep, encoded, cmds,
                   results, locked, entryDisk, pub>>

\* oldStatic := "static_old"; os.RemoveAll(oldStatic): the swap begins.
SwapRmOld(r) ==
    /\ prog = "swap" /\ up
    /\ pc[r] = "rmOld"
    /\ disk' = [disk EXCEPT ![StaticOld] = Absent]
    /\ pub' = [active |-> TRUE, by |-> r, old |-> disk[Static],
               new |-> disk[StaticNew], interrupted |-> FALSE]
    /\ pc' = Set(pc, r, "renameOld")
    /\ UNCHANGED <<prog, run, up, crashes, now, deployMutex, req, dep, resp, encoded,
                   logs, walk, cmds, results, locked, entryDisk>>

\* if err := os.Rename("static", oldStatic); err != nil && !os.IsNotExist(err)
SwapRenameOld(r) ==
    /\ prog = "swap" /\ up
    /\ pc[r] = "renameOld"
    /\ \/ /\ ~disk[Static].exists
          /\ Did(r, "renameOld", "not exist")
          /\ pc' = Set(pc, r, "renameNew")
          /\ UNCHANGED <<disk, resp, logs, pub>>
       \/ /\ disk[Static].exists
          /\ Did(r, "renameOld", "nil")
          /\ disk' = [disk EXCEPT ![StaticOld] = disk[Static], ![Static] = Absent]
          /\ pc' = Set(pc, r, "renameNew")
          /\ UNCHANGED <<resp, logs, pub>>
       \/ /\ disk[Static].exists
          /\ Did(r, "renameOld", "rename error")
          /\ SwapFail(r, "Deployment failed", 500, "Rename static failed", "rmBuild")
          /\ pub' = [pub EXCEPT !.active = FALSE]
          /\ UNCHANGED disk
    /\ UNCHANGED <<prog, run, up, crashes, now, deployMutex, req, dep, encoded, walk,
                   locked, entryDisk>>

\* if err := os.Rename(newStatic, "static"); err != nil { log; rollback }
SwapRenameNew(r) ==
    /\ prog = "swap" /\ up
    /\ pc[r] = "renameNew"
    /\ \/ /\ Did(r, "renameNew", "nil")
          /\ disk' = [disk EXCEPT ![Static] = disk[StaticNew], ![StaticNew] = Absent]
          /\ pc' = Set(pc, r, "cleanupOld")
          /\ UNCHANGED logs
       \/ /\ Did(r, "renameNew", "rename error")
          /\ logs' = Set(logs, r, Append(logs[r], "Atomic swap failed"))
          /\ pc' = Set(pc, r, "rollback")
          /\ UNCHANGED disk
    /\ UNCHANGED <<prog, run, up, crashes, now, deployMutex, req, dep, resp, encoded,
                   walk, locked, entryDisk, pub>>

\* A rollback that reports the failure without renaming static_old back.
SwapRollbackNoRename(r) ==
    /\ prog = "swap" /\ up
    /\ pc[r] = "rollback"
    /\ Did(r, "rollback", "nil")
    /\ resp' = Set(resp, r, HttpError("Deployment failed", 500))
    /\ pub' = [pub EXCEPT !.active = FALSE]
    /\ pc' = Set(pc, r, "rmBuild")
    /\ UNCHANGED <<prog, run, up, crashes, now, deployMutex, req, dep, encoded, logs,
                   disk, walk, locked, entryDisk>>

\* if err := os.Rename(oldStatic, "static"); err != nil { log "Rollback
\* failed" }; http.Error(w, "Deployment failed", 500); return
SwapRollback(r) ==
    /\ prog = "swap" /\ up
    /\ pc[r] = "rollback"
    /\ \/ /\ disk[StaticOld].exists
          /\ Did(r, "rollback", "nil")
          /\ disk' = [disk EXCEPT ![Static] = disk[StaticOld], ![StaticOld] = Absent]
          /\ UNCHANGED logs
       \/ /\ Did(r, "rollback",
                 IF disk[StaticOld].exists THEN "rename error" ELSE "not exist")
          /\ logs' = Set(logs, r, Append(logs[r], "Rollback failed"))
          /\ UNCHANGED disk
    /\ resp' = Set(resp, r, HttpError("Deployment failed", 500))
    /\ pub' = [pub EXCEPT !.active = FALSE]
    /\ pc' = Set(pc, r, "rmBuild")
    /\ UNCHANGED <<prog, run, up, crashes, now, deployMutex, req, dep, encoded, walk,
                   locked, entryDisk>>

\* os.RemoveAll(oldStatic) after a successful swap
SwapCleanupOld(r) ==
    /\ prog = "swap" /\ up
    /\ pc[r] = "cleanupOld"
    /\ disk' = [disk EXCEPT ![StaticOld] = Absent]
    /\ pc' = Set(pc, r, "respond")
    /\ UNCHANGED <<prog, run, up, crashes, now, deployMutex, req, dep, resp, encoded,
                   logs, walk, cmds, results, locked, entryDisk, pub>>

\* json.NewEncoder(w).Encode({"message": "Deployment successful"})
SwapRespond(r) ==
    /\ prog = "swap" /\ up
    /\ pc[r] = "respond"
    /\ resp' = Set(resp, r, [code |-> 200, text |-> "Deployment successful"])
    /\ logs' = Set(logs, r, Append(logs[r], "Deployment succeeded"))
    /\ pub' = [pub EXCEPT !.active = FALSE]
    /\ pc' = Set(pc, r, "rmBuild")
    /\ UNCHANGED <<prog, run, up, crashes, now, deployMutex, req, dep, encoded, disk,
                   walk, cmds, results, locked, entryDisk>>

\* The deferred os.RemoveAll(buildFolder).
SwapRmBuild(r) ==
    /\ prog = "swap" /\ up
    /\ pc[r] = "rmBuild"
    /\ disk' = [disk EXCEPT ![BuildFolder(r)] = Absent]
    /\ pc' = Set(pc, r, "unlock")
    /\ UNCHANGED <<prog, run, up, crashes, now, deployMutex, req, dep, resp, encoded,
                   logs, walk, cmds, results, locked, entryDisk, pub>>

SwapUnlock(r) ==
    /\ prog = "swap" /\ up
    /\ Unlock(r)
    /\ UNCHANGED <<prog, run, up, crashes, now, resp, logs, disk, pub>>

\* The process dies (power loss, kill -9, log.Fatal): every handler in
\* flight is gone with its locals and its mutex; the disk stays as it is.
\* Modelled for part_002, whose shared directory static outlives the process
\* and is repaired by main on the next start.
Crash ==
    /\ prog = "swap" /\ up
    /\ crashes < MaxCrashes
    /\ up' = FALSE
    /\ crashes' = crashes + 1
    /\ deployMutex' = 0
    /\ pc' = [r \in Requests |-> IF pc[r] \in {"lock", "done"} THEN pc[r] ELSE "lost"]
    /\ req' = [r \in Requests |-> NoRequest]
    /\ walk' = [r \in Requests |-> 0]
    /\ cmds' = [r \in Requests |-> <<>>]
    /\ results' = [r \in Requests |-> <<>>]
    /\ locked' = [r \in Requests |-> FALSE]
    /\ entryDisk' = [r \in Requests |-> InitDisk(prog)]
    /\ pub' = IF pub.active
              THEN [pub EXCEPT !.active = FALSE, !.interrupted = TRUE]
              ELSE pub
    /\ UNCHANGED <<prog, run, now, dep, resp, encoded, logs, disk>>

\* main() of part_002 on the next start:
\* if os.Stat("static") IsNotExist { os.Mkdir("static", 0755) }
Restart ==
    /\ prog = "swap" /\ ~up
    /\ up' = TRUE
    /\ disk' = [disk EXCEPT ![Static] = IF @.exists THEN @ ELSE EmptyDir]
    /\ UNCHANGED <<prog, run, crashes, now, deployMutex, pc, req, dep, resp, encoded,
                   logs, walk, cmds, results, locked, entryDisk, pub>>

SwapStep(r) ==
    \/ SwapLock(r) \/ SwapAuth(r) \/ SwapDecode(r) \/ SwapValidate(r)
    \/ SwapMkdir(r) \/ SwapClone(r) \/ SwapCloneDone(r) \/ SwapCheckPkg(r)
    \/ SwapInstall(r) \/ SwapInstallDone(r) \/ SwapBuild(r) \/ SwapBuildDone(r)
    \/ SwapVerify(r) \/ SwapRmNew(r) \/ SwapCopy(r) \/ SwapRmOld(r)
    \/ SwapRenameOld(r) \/ SwapRenameNew(r) \/ SwapRollback(r)
    \/ SwapCleanupOld(r) \/ SwapRespond(r) \/ SwapRmBuild(r) \/ SwapUnlock(r)

\* ------------------------------------------ part_001: temp dir, then copy
\* The record's Outputs has no Prisma field in this variant; it stays empty.
deployDir(r) == DeploymentDir(dep[r].ID)

CopyLock(r) ==
    /\ prog = "copy" /\ up
    /\ pc[r] = "lock"
    /\ Lock(r)
    /\ pc' = Set(pc, r, "decode")
    /\ UNCHANGED <<prog, run, up, crashes, now, req, dep, resp, encoded, logs, disk,
                   walk, cmds, results, pub>>

CopyDecode(r) ==
    /\ prog = "copy" /\ up
    /\ pc[r] = "decode"
    /\ \/ /\ resp' = Set(resp, r, HttpError("Invalid request payload", 400))
          /\ pc' = Set(pc, r, "unlock")
          /\ UNCHANGED req
       \/ /\ \E url \in RepoURLs, fw \in FrameworkInputs :
                req' = Set(req, r, DeployRequest(url, fw))
          /\ pc' = Set(pc, r, "validate")
          /\ UNCHANGED resp
    /\ UNCHANGED <<prog, run, up, crashes, now, deployMutex, dep, encoded, logs, disk,
                   walk, cmds, results, locked, entryDisk, pub>>

CopyValidate(r) ==
    /\ prog = "copy" /\ up
    /\ pc[r] = "validate"
    /\ IF req[r].Framework \notin validFrameworksCopy
       THEN /\ resp' = Set(resp, r, HttpError("Invalid framework", 400))
            /\ pc' = Set(pc, r, "unlock")
       ELSE /\ pc' = Set(pc, r, "create")
            /\ UNCHANGED resp
    /\ UNCHANGED <<prog, run, up, crashes, now, deployMutex, req, dep, encoded, logs,
                   disk, walk, cmds, results, locked, entryDisk, pub>>

\* deployment := &Deployment{ID: time.Now().Format(...), Status: "started"}
CopyCreate(r) ==
    /\ prog = "copy" /\ up
    /\ pc[r] = "create"
    /\ dep' = Set(dep, r,
            [ID |-> now, Status |-> "started", RepoURL |-> req[r].RepoURL,
             Framework |-> req[r].Framework, DeployPath |-> <<>>,
             Outputs |-> NoOutputs, Error |-> <<>>])
    /\ pc' = Set(pc, r, "mkTemp")
    /\ UNCHANGED <<prog, run, up, crashes, now, deployMutex, req, resp, encoded, logs,
                   disk, walk, cmds, results, locked, entryDisk, pub>>

\* tempDir, err := os.MkdirTemp("", "build-"); defer os.RemoveAll(tempDir)
CopyMkTemp(r) ==
    /\ prog = "copy" /\ up
    /\ pc[r] = "mkTemp"
    /\ \/ /\ dep' = Set(dep, r,
                [dep[r] EXCEPT !.Status = "failed",
                    !.Error = <<"Failed to create temp directory", "mkdir error">>])
          /\ pc' = Set(pc, r, "encode")
          /\ UNCHANGED disk
       \/ /\ disk' = [disk EXCEPT ![TempDir(r)] = EmptyDir]
          /\ pc' = Set(pc, r, "clone")
          /\ UNCHANGED dep
    /\ UNCHANGED <<prog, run, up, crashes, now, deployMutex, req, resp, encoded, logs,
                   walk, cmds, results, locked, entryDisk, pub>>

CopyClone(r) == prog = "copy" /\ up /\ StartStage(r, "clone", "cloneWait")

CopyCloneDone(r) ==
    /\ prog = "copy" /\ up
    /\ pc[r] = "cloneWait"
    /\ \E o \in Outcomes :
        /\ o.exit = "zero" => Cloneable(req[r].RepoURL)
        /\ disk' = IF o.exit = "zero"
                   THEN [disk EXCEPT ![TempDir(r)] = Dir(SourceTree(r, FALSE))]
                   ELSE disk
        /\ LET res == runCommand("clone", o) IN
           FinishStage(r, res, [dep[r].Outputs EXCEPT !.Clone = res.output],
                       "Clone failed", "install", "rmTemp")
    /\ UNCHANGED <<prog, run, up, crashes, now, deployMutex, req, resp, encoded, logs,
                   walk, cmds, locked, entryDisk, pub>>

CopyInstall(r) == prog = "copy" /\ up /\ StartStage(r, "install", "installWait")

CopyInstallDone(r) ==
    /\ prog = "copy" /\ up
    /\ pc[r] = "installWait"
    /\ \E o \in Outcomes :
        /\ disk' = IF o.exit = "zero"
                   THEN [disk EXCEPT ![TempDir(r)] =
                            Dir(@.files \cup {Entry("node_modules", 0, r)})]
                   ELSE disk
        /\ LET res == runCommand("install", o) IN
           FinishStage(r, res, [dep[r].Outputs EXCEPT !.Install = res.output],
                       "npm install failed", "build", "rmTemp")
    /\ UNCHANGED <<prog, run, up, crashes, now, deployMutex, req, resp, encoded, logs,
                   walk, cmds, locked, entryDisk, pub>>

CopyBuild(r) == prog = "copy" /\ up /\ StartStage(r, "build", "buildWait")

CopyBuildDone(r) ==
    /\ prog = "copy" /\ up
    /\ pc[r] = "buildWait"
    /\ \E o \in Outcomes, dist \in BOOLEAN :
        /\ o.exit # "zero" => ~dist
        /\ disk' = IF dist
                   THEN [disk EXCEPT ![TempDir(r)] = Dir(@.files \cup DistFiles(r))]
                   ELSE disk
        /\ LET res == runCommand("build", o) IN
           FinishStage(r, res, [dep[r].Outputs EXCEPT !.Build = res.output],
                       "npm build failed", "verify", "rmTemp")
    /\ UNCHANGED <<prog, run, up, crashes, now, deployMutex, req, resp, encoded, logs,
                   walk, cmds, locked, entryDisk, pub>>

\* if _, err := os.Stat(distPath); err != nil { failed }
CopyVerify(r) ==
    /\ prog = "copy" /\ up
    /\ pc[r] = "verify"
    /\ cmds' = Set(cmds, r, Append(cmds[r], "verify"))
    /\ LET err == IF HasDist(disk[TempDir(r)]) THEN "nil" ELSE "no such file" IN
        /\ results' = Set(results, r, Append(results[r], [output |-> <<>>, err |-> err]))
        /\ dep' = Set(dep, r,
                IF err # "nil"
                THEN [dep[r] EXCEPT !.Status = "failed",
                                    !.Error = <<"Build output missing", err>>]
                ELSE dep[r])
        /\ pc' = Set(pc, r, IF err # "nil" THEN "rmTemp" ELSE "mkDeployDir")
    /\ UNCHANGED <<prog, run, up, crashes, now, deployMutex, req, resp, encoded, logs,
                   disk, walk, locked, entryDisk, pub>>

\* os.MkdirAll(deployDir, 0755)
CopyMkDeployDir(r) ==
    /\ prog = "copy" /\ up
    /\ pc[r] = "mkDeployDir"
    /\ \/ /\ dep' = Set(dep, r,
                [dep[r] EXCEPT !.Status = "failed",
                    !.Error = <<"Failed to create deployment directory", "mkdir error">>])
          /\ pc' = Set(pc, r, "rmTemp")
          /\ UNCHANGED <<disk, walk>>
       \/ /\ disk' = [disk EXCEPT ![deployDir(r)] = IF @.exists THEN @ ELSE EmptyDir]
          /\ walk' = Set(walk, r, 1)
          /\ pc' = Set(pc, r, "copy")
          /\ UNCHANGED dep
    /\ UNCHANGED <<prog, run, up, crashes, now, deployMutex, req, resp, encoded, logs,
                   cmds, results, locked, entryDisk, pub>>

\* One visit of filepath.Walk in copyDirContents(distPath, deployDir): the
\* root is skipped, the files are copied one by one, any copy can fail.
\* After the last one: Status = success, DeployPath = /deployments/<ID>/.
CopyCopy(r) ==
    /\ prog = "copy" /\ up
    /\ pc[r] = "copy"
    /\ \E ok \in BOOLEAN :
        /\ disk' = copyDir(r, deployDir(r), ok)
        /\ IF ~ok
           THEN /\ dep' = Set(dep, r,
                        [dep[r] EXCEPT !.Status = "failed",
                            !.Error = <<"Failed to copy build output", "copy error">>])
                /\ pc' = Set(pc, r, "rmTemp")
                /\ UNCHANGED walk
           ELSE /\ walk' = Set(walk, r, walk[r] + 1)
                /\ IF walk[r] = NumFiles
                   THEN /\ dep' = Set(dep, r,
                                [dep[r] EXCEPT !.Status = "success",
                                    !.DeployPath = <<"/deployments/", dep[r].ID, "/">>])
                        /\ pc' = Set(pc, r, "rmTemp")
                   ELSE /\ pc' = Set(pc, r, "copy")
                        /\ UNCHANGED dep
    /\ UNCHANGED <<prog, run, up, crashes, now, deployMutex, req, resp, encoded, logs,
                   cmds, results, locked, entryDisk, pub>>

\* The deferred os.RemoveAll(tempDir).
CopyRmTemp(r) ==
    /\ prog = "copy" /\ up
    /\ pc[r] = "rmTemp"
    /\ disk' = [disk EXCEPT ![TempDir(r)] = Absent]
    /\ pc' = Set(pc, r, "encode")
    /\ UNCHANGED <<prog, run, up, crashes, now, deployMutex, req, dep, resp, encoded,
                   logs, walk, cmds, results, locked, entryDisk, pub>>

\* The deferred json.NewEncoder(w).Encode(deployment).
CopyEncode(r) ==
    /\ prog = "copy" /\ up
    /\ pc[r] = "encode"
    /\ resp' = Set(resp, r, [code |-> 200, text |-> "application/json"])
    /\ encoded' = Set(encoded, r, Append(encoded[r], dep[r]))
    /\ pc' = Set(pc, r, "unlock")
    /\ UNCHANGED <<prog, run, up, crashes, now, deployMutex, req, dep, logs, disk, walk,
                   cmds, results, locked, entryDisk, pub>>

CopyUnlock(r) ==
    /\ prog = "copy" /\ up
    /\ Unlock(r)
    /\ UNCHANGED <<prog, run, up, crashes, now, resp, logs, disk, pub>>

CopyStep(r) ==
    \/ CopyLock(r) \/ CopyDecode(r) \/ CopyValidate(r) \/ CopyCreate(r)
    \/ CopyMkTemp(r) \/ CopyClone(r) \/ CopyCloneDone(r) \/ CopyInstall(r)
    \/ CopyInstallDone(r) \/ CopyBuild(r) \/ CopyBuildDone(r) \/ CopyVerify(r)
    \/ CopyMkDeployDir(r) \/ CopyCopy(r) \/ CopyRmTemp(r) \/ CopyEncode(r)
    \/ CopyUnlock(r)

\* ------------------------------------------- part_000: Deployer.Execute
\* Execute is a library function: its caller, the types package and the
\* injected runner are not part of the sources.  The caller is taken to
\* build the Deployment as main.go does (Status "started", BuildDir
\* static/deployments/<ID>) and to call Execute for one deployment at a
\* time; the runner returns what runCommand returns, or panics.
ExecResponse == [code |-> 0, text |-> "DeploymentResponse"]
ExecNil == [code |-> 0, text |-> "nil"]

BuildDir(r) == DeploymentDir(dep[r].ID)

\* The caller builds a Deployment and calls d.Execute(deployment).
ExecCall(r) ==
    /\ prog = "exec" /\ up
    /\ pc[r] = "call"
    /\ \A q \in Requests : pc[q] \in {"call", "done"}
    /\ \E url \in RepoURLs, fw \in FrameworkInputs :
        dep' = Set(dep, r,
            [ID |-> now, Status |-> "started", RepoURL |-> url, Framework |-> fw,
             DeployPath |-> <<>>, Outputs |-> NoOutputs, Error |-> <<>>])
    /\ pc' = Set(pc, r, "mkdir")
    /\ UNCHANGED <<prog, run, up, crashes, now, deployMutex, req, resp, encoded, logs,
                   disk, walk, cmds, results, locked, entryDisk, pub>>

\* d.fail(deployment, message, err): Status, Error, and the response that
\* carries the record.
fail(r, message, err) ==
    /\ dep' = Set(dep, r,
            [dep[r] EXCEPT !.Status = "failed", !.Error = <<message, err>>])
    /\ resp' = Set(resp, r, ExecResponse)
    /\ encoded' = Set(encoded, r, <<dep'[r]>>)
    /\ pc' = Set(pc, r, "return")

\* if err := os.MkdirAll(deployment.BuildDir, 0755); err != nil { return d.fail }
ExecMkdir(r) ==
    /\ prog = "exec" /\ up
    /\ pc[r] = "mkdir"
    /\ \/ /\ fail(r, "Failed to create directory", "mkdir error")
          /\ UNCHANGED disk
       \/ /\ disk' = [disk EXCEPT ![BuildDir(r)] = IF @.exists THEN @ ELSE EmptyDir]
          /\ pc' = Set(pc, r, "clone")
          /\ UNCHANGED <<dep, resp, encoded>>
    /\ UNCHANGED <<prog, run, up, crashes, now, deployMutex, req, logs, walk, cmds,
                   results, locked, entryDisk, pub>>

\* d.runner(...) panics: the deferred function of Execute takes over.
RunnerPanics(r) ==
    /\ pc' = Set(pc, r, "recover")
    /\ UNCHANGED <<dep, resp, encoded, results, disk>>

\* "deployment.Outputs.X = output; if err != nil { return d.fail(...) }"
ExecFinish(r, res, outputs, message, next) ==
    /\ results' = Set(results, r, Append(results[r], res))
    /\ IF res.err # "nil"
       THEN /\ dep' = Set(dep, r,
                    [dep[r] EXCEPT !.Outputs = outputs, !.Status = "failed",
                                   !.Error = <<message, res.err>>])
            /\ resp' = Set(resp, r, ExecResponse)
            /\ encoded' = Set(encoded, r, <<dep'[r]>>)
            /\ pc' = Set(pc, r, "return")
       ELSE /\ dep' = Set(dep, r, [dep[r] EXCEPT !.Outputs = outputs])
            /\ pc' = Set(pc, r, next)
            /\ UNCHANGED <<resp, encoded>>

ExecClone(r) == prog = "exec" /\ up /\ StartStage(r, "clone", "cloneWait")

ExecCloneDone(r) ==
    /\ prog = "exec" /\ up
    /\ pc[r] = "cloneWait"
    /\ \/ RunnerPanics(r)
       \/ \E o \in Outcomes, marker \in BOOLEAN :
            /\ o.exit = "zero" =>
                  Cloneable(dep[r].RepoURL) /\ disk[BuildDir(r)].files = {}
            /\ o.exit # "zero" => ~marker
            /\ disk' = IF o.exit = "zero"
                       THEN [disk EXCEPT ![BuildDir(r)] = Dir(SourceTree(r, marker))]
                       ELSE disk
            /\ LET res == runCommand("clone", o) IN
               ExecFinish(r, res, [dep[r].Outputs EXCEPT !.Clone = res.output],
                          "Clone failed", "hook")
    /\ UNCHANGED <<prog, run, up, crashes, now, deployMutex, req, logs, walk, cmds,
                   locked, entryDisk, pub>>

\* switch deployment.Framework { case "node-prisma": d.handlePrisma },
\* which returns nil at once when prisma/schema.prisma is missing.
ExecHook(r) ==
    /\ prog = "exec" /\ up
    /\ pc[r] = "hook"
    /\ pc' = Set(pc, r,
            IF /\ dep[r].Framework = "node-prisma"
               /\ Entry("prisma/schema.prisma", 0, r) \in disk[BuildDir(r)].files
            THEN "generate" ELSE "install")
    /\ UNCHANGED <<prog, run, up, crashes, now, deployMutex, req, dep, resp, encoded,
                   logs, disk, walk, cmds, results, locked, entryDisk, pub>>

ExecGenerate(r) == prog = "exec" /\ up /\ StartStage(r, "generate", "generateWait")

\* handlePrisma: npx prisma generate ends.
ExecGenerateDone(r) ==
    /\ prog = "exec" /\ up
    /\ pc[r] = "generateWait"
    /\ \/ RunnerPanics(r)
       \/ \E o \in Outcomes :
            /\ disk' = IF o.exit = "zero"
                       THEN [disk EXCEPT ![BuildDir(r)] =
                                Dir(@.files \cup {Entry("prisma-client", 0, r)})]
                       ELSE disk
            /\ LET res == runCommand("generate", o) IN
               ExecFinish(r, res, [dep[r].Outputs EXCEPT !.Prisma = res.output],
                          "Prisma setup failed", "migrate")
    /\ UNCHANGED <<prog, run, up, crashes, now, deployMutex, req, logs, walk, cmds,
                   locked, entryDisk, pub>>

ExecMigrate(r) == prog = "exec" /\ up /\ StartStage(r, "migrate", "migrateWait")

\* handlePrisma: npx prisma migrate deploy ends; Prisma += "\n" + output.
ExecMigrateDone(r) ==
    /\ prog = "exec" /\ up
    /\ pc[r] = "migrateWait"
    /\ \/ RunnerPanics(r)
       \/ /\ \E o \in Outcomes :
                LET res == runCommand("migrate", o) IN
                ExecFinish(r, res,
                           [dep[r].Outputs EXCEPT !.Prisma = @ \o <<"\n">> \o res.output],
                           "Prisma setup failed", "install")
          /\ UNCHANGED disk
    /\ UNCHANGED <<prog, run, up, crashes, now, deployMutex, req, logs, walk, cmds,
                   locked, entryDisk, pub>>

ExecInstall(r) == prog = "exec" /\ up /\ StartStage(r, "install", "installWait")

ExecInstallDone(r) ==
    /\ prog = "exec" /\ up
    /\ pc[r] = "installWait"
    /\ \/ RunnerPanics(r)
       \/ \E o \in Outcomes :
            /\ disk' = IF o.exit = "zero"
                       THEN [disk EXCEPT ![BuildDir(r)] =
                                Dir(@.files \cup {Entry("node_modules", 0, r)})]
                       ELSE disk
            /\ LET res == runCommand("install", o) IN
               ExecFinish(r, res, [dep[r].Outputs EXCEPT !.Install = res.output],
                          "npm install failed", "build")
    /\ UNCHANGED <<prog, run, up, crashes, now, deployMutex, req, logs, walk, cmds,
                   locked, entryDisk, pub>>

ExecBuild(r) == prog = "exec" /\ up /\ StartStage(r, "build", "buildWait")

ExecBuildDone(r) ==
    /\ prog = "exec" /\ up
    /\ pc[r] = "buildWait"
    /\ \/ RunnerPanics(r)
       \/ \E o \in Outcomes, dist \in BOOLEAN :
            /\ o.exit # "zero" => ~dist
            /\ disk' = IF dist
                       THEN [disk EXCEPT ![BuildDir(r)] = Dir(@.files \cup DistFiles(r))]
                       ELSE disk
            /\ LET res == runCommand("build", o) IN
               ExecFinish(r, res, [dep[r].Outputs EXCEPT !.Build = res.output],
                          "npm build failed", "verify")
    /\ UNCHANGED <<prog, run, up, crashes, now, deployMutex, req, logs, walk, cmds,
                   locked, entryDisk, pub>>

\* if os.Stat(BuildDir/dist) fails { return d.fail }; Status = "success";
\* DeployPath = "/deployments/<ID>/dist/"; return the response.
ExecVerify(r) ==
    /\ prog = "exec" /\ up
    /\ pc[r] = "verify"
    /\ cmds' = Set(cmds, r, Append(cmds[r], "verify"))
    /\ LET err == IF HasDist(disk[BuildDir(r)]) THEN "nil" ELSE "no such file" IN
        /\ results' = Set(results, r, Append(results[r], [output |-> <<>>, err |-> err]))
        /\ IF err # "nil"
           THEN fail(r, "Build output missing", err)
           ELSE /\ dep' = Set(dep, r,
                        [dep[r] EXCEPT !.Status = "success",
                            !.DeployPath = <<"/deployments/", dep[r].ID, "/dist/">>])
                /\ resp' = Set(resp, r, ExecResponse)
                /\ encoded' = Set(encoded, r, <<dep'[r]>>)
                /\ pc' = Set(pc, r, "return")
    /\ UNCHANGED <<prog, run, up, crashes, now, deployMutex, req, logs, disk, walk,
                   locked, entryDisk, pub>>

\* defer func() { if r := recover(); r != nil { Error = "Panic: ...";
\* Status = "failed" } }(): Execute has no named result, so after a
\* recovered panic it returns the zero value, a nil response.
ExecRecover(r) ==
    /\ prog = "exec" /\ up
    /\ pc[r] = "recover"
    /\ dep' = Set(dep, r,
            [dep[r] EXCEPT !.Error = <<"Panic", "runner">>, !.Status = "failed"])
    /\ resp' = Set(resp, r, ExecNil)
    /\ pc' = Set(pc, r, "return")
    /\ UNCHANGED <<prog, run, up, crashes, now, deployMutex, req, encoded, logs, disk,
                   walk, cmds, results, locked, entryDisk, pub>>

\* Execute has returned; the caller is done with the record.
ExecReturn(r) ==
    /\ prog = "exec" /\ up
    /\ pc[r] = "return"
    /\ pc' = Set(pc, r, "done")
    /\ dep' = Set(dep, r, NoDeployment)
    /\ encoded' = Set(encoded, r, <<>>)
    /\ cmds' = Set(cmds, r, <<>>)
    /\ results' = Set(results, r, <<>>)
    /\ UNCHANGED <<prog, run, up, crashes, now, deployMutex, req, resp, logs, disk,
                   walk, locked, entryDisk, pub>>

ExecStep(r) ==
    \/ ExecCall(r) \/ ExecMkdir(r) \/ ExecClone(r) \/ ExecCloneDone(r)
    \/ ExecHook(r) \/ ExecGenerate(r) \/ ExecGenerateDone(r) \/ ExecMigrate(r)
    \/ ExecMigrateDone(r) \/ ExecInstall(r) \/ ExecInstallDone(r)
    \/ ExecBuild(r) \/ ExecBuildDone(r) \/ ExecVerify(r) \/ ExecRecover(r)
    \/ ExecReturn(r)

\* ------------------------------------------------ runCommand, step by step
\* One call of runCommand with everything it starts: the calling goroutine
\* (run.caller), the child process (run.child: not started, running, or how
\* it ended), the combined output the child has written so far (run.out
\* chunks), the deadline of the context (run.expired) and, in part_002, the
\* helper goroutine (run.helper) with the value it holds for the channel
\* (run.got; in main.go run.got is what CombinedOutput returned).  The
\* handlers above use the summary of a call, runCommand and runCommandGo.
MaxOutput == 2

Commands == {"git clone", "npm install", "npm run build"}

\* A combined output of n chunks; string(nil) and "" are both <<>>.
Chunks(n) == [i \in 1..n |-> i]

NoResult == [output |-> <<>>, err |-> "none"]

NoRun ==
    [cmd |-> "", caller |-> "idle", child |-> "none", out |-> 0,
     expired |-> FALSE, helper |-> "none", got |-> NoResult, ret |-> NoResult]

handlerVars == <<prog, up, crashes, now, deployMutex, pc, req, dep, resp, encoded,
                 logs, disk, walk, cmds, results, locked, entryDisk, pub>>

ChildEnded == run.child \in {"zero", "nonzero", "killed"}

\* The error of exec.Cmd.CombinedOutput for a child that ended.
WaitError ==
    CASE run.child = "zero" -> "nil"
      [] run.child = "nonzero" -> "exit status 1"
      [] OTHER -> "signal: killed"

\* The handler calls runCommand for one of its commands.
RunCall ==
    /\ run.caller = "idle"
    /\ \E c \in Commands : run' = [run EXCEPT !.cmd = c, !.caller = "start"]
    /\ UNCHANGED handlerVars

\* The child writes to its stdout or stderr.
ChildWrite ==
    /\ run.child = "running"
    /\ run.out < MaxOutput
    /\ run' = [run EXCEPT !.out = @ + 1]
    /\ UNCHANGED handlerVars

\* The child exits by itself.
ChildExit ==
    /\ run.child = "running"
    /\ \E status \in {"zero", "nonzero"} : run' = [run EXCEPT !.child = status]
    /\ UNCHANGED handlerVars

\* The deadline of context.WithTimeout passes.  The timeouts are minutes, so
\* it does not pass before the child has been started; the deferred cancel
\* stops the timer when runCommand returns.
Expire ==
    /\ run.caller \in {"wait", "check", "select"}
    /\ run.child # "none"
    /\ ~run.expired
    /\ run' = [run EXCEPT !.expired = TRUE]
    /\ UNCHANGED handlerVars

\* main.go, part_001: output, err := cmd.CombinedOutput() starts the child
\* (or fails to start it).
CtxStart ==
    /\ prog # "swap"
    /\ run.caller = "start"
    /\ \/ run' = [run EXCEPT !.caller = "wait", !.child = "running"]
       \/ run' = [run EXCEPT !.caller = "check",
                             !.got = [output |-> <<>>, err |-> "start error"]]
    /\ UNCHANGED handlerVars

\* exec.CommandContext: the command kills its child when the context is done.
CtxKill ==
    /\ prog # "swap"
    /\ run.expired /\ run.child = "running"
    /\ run' = [run EXCEPT !.child = "killed"]
    /\ UNCHANGED handlerVars

\* CombinedOutput returns once the child has ended.
CtxOutput ==
    /\ prog # "swap"
    /\ run.caller = "wait" /\ ChildEnded
    /\ run' = [run EXCEPT !.caller = "check",
                          !.got = [output |-> Chunks(run.out), err |-> WaitError]]
    /\ UNCHANGED handlerVars

\* if cmdCtx.Err() == context.DeadlineExceeded { return string(output),
\* "command timed out" }; return string(output), err
CtxCheck ==
    /\ prog # "swap"
    /\ run.caller = "check"
    /\ run' = [run EXCEPT !.caller = "returned",
                          !.ret = IF run.expired
                                  THEN [output |-> run.got.output,
                                        err |-> "command timed out"]
                                  ELSE run.got]
    /\ UNCHANGED handlerVars

\* part_002: done := make(chan error); go func() { ... }(); select
GoStart ==
    /\ prog = "swap"
    /\ run.caller = "start"
    /\ run' = [run EXCEPT !.caller = "select", !.helper = "running"]
    /\ UNCHANGED handlerVars

\* The helper: output, err = cmd.CombinedOutput() starts the child (or fails
\* to start it and goes on to the send).
HelperStart ==
    /\ prog = "swap"
    /\ run.helper = "running" /\ run.child = "none"
    /\ \/ run' = [run EXCEPT !.child = "running"]
       \/ run' = [run EXCEPT !.helper = "sending",
                             !.got = [output |-> <<>>, err |-> "start error"]]
    /\ UNCHANGED handlerVars

\* The helper: CombinedOutput returns once the child has ended, and the
\* helper blocks in "done <- err" until somebody receives.
HelperOutput ==
    /\ prog = "swap"
    /\ run.helper = "running" /\ ChildEnded
    /\ run' = [run EXCEPT !.helper = "sending",
                          !.got = [output |-> Chunks(run.out), err |-> WaitError]]
    /\ UNCHANGED handlerVars

\* case err := <-done: return output, err   (the helper's send completes)
GoReceive ==
    /\ prog = "swap"
    /\ run.caller = "select" /\ run.helper = "sending"
    /\ run' = [run EXCEPT !.caller = "returned", !.helper = "finished",
                          !.ret = run.got]
    /\ UNCHANGED handlerVars

\* case <-ctx.Done(): cmd.Process.Kill(); return nil, "command timed out"
GoTimeout ==
    /\ prog = "swap"
    /\ run.caller = "select" /\ run.expired
    /\ run' = [run EXCEPT !.caller = "returned",
                          !.child = IF @ = "running" THEN "killed" ELSE @,
                          !.ret = [output |-> <<>>, err |-> "command timed out"]]
    /\ UNCHANGED handlerVars

RunNext ==
    \/ RunCall \/ ChildWrite \/ ChildExit \/ Expire
    \/ CtxStart \/ CtxKill \/ CtxOutput \/ CtxCheck
    \/ GoStart \/ HelperStart \/ HelperOutput \/ GoReceive \/ GoTimeout

\* ------------------------------------------------------------------ system
NoPublish == [active |-> FALSE, by |-> 0, old |-> Absent, new |-> Absent,
              interrupted |-> FALSE]

Programs == {"main", "copy", "swap"}

Init ==
    /\ prog \in Programs
    /\ up = TRUE
    /\ crashes = 0
    /\ now = 0
    /\ deployMutex = 0
    /\ pc = [r \in Requests |-> "lock"]
    /\ req = [r \in Requests |-> NoRequest]
    /\ dep = [r \in Requests |-> NoDeployment]
    /\ resp = [r \in Requests |-> NoResponse]
    /\ encoded = [r \in Requests |-> <<>>]
    /\ logs = [r \in Requests |-> <<>>]
    /\ disk = InitDisk(prog)
    /\ walk = [r \in Requests |-> 0]
    /\ cmds = [r \in Requests |-> <<>>]
    /\ results = [r \in Requests |-> <<>>]
    /\ locked = [r \in Requests |-> FALSE]
    /\ entryDisk = [r \in Requests |-> InitDisk(prog)]
    /\ pub = NoPublish
    /\ run = NoRun

Next ==
    \/ Tick
    \/ \E r \in Requests : MainStep(r)
    \/ \E r \in Requests : CopyStep(r)
    \/ \E r \in Requests : SwapStep(r)
    \/ Crash
    \/ Restart

Spec == Init /\ [][Next]_vars

\* The two pipelines that keep a Deployment record with a hook stage:
\* main.go's deployHandler and Deployer.Execute.
RecordInit ==
    /\ prog \in {"main", "exec"}
    /\ up = TRUE
    /\ crashes = 0
    /\ now = 0
    /\ deployMutex = 0
    /\ pc = [r \in Requests |-> IF prog = "exec" THEN "call" ELSE "lock"]
    /\ req = [r \in Requests |-> NoRequest]
    /\ dep = [r \in Requests |-> NoDeployment]
    /\ resp = [r \in Requests |-> NoResponse]
    /\ encoded = [r \in Requests |-> <<>>]
    /\ logs = [r \in Requests |-> <<>>]
    /\ disk = InitDisk(prog)
    /\ walk = [r \in Requests |-> 0]
    /\ cmds = [r \in Requests |-> <<>>]
    /\ results = [r \in Requests |-> <<>>]
    /\ locked = [r \in Requests |-> FALSE]
    /\ entryDisk = [r \in Requests |-> InitDisk(prog)]
    /\ pub = NoPublish
    /\ run = NoRun

RecordNext ==
    \/ Tick
    \/ \E r \in Requests : MainStep(r)
    \/ \E r \in Requests : ExecStep(r)

RecordSpec == RecordInit /\ [][RecordNext]_vars

\* One call of runCommand, in main.go's and in part_002's implementation.
RunInit ==
    /\ prog \in {"main", "swap"}
    /\ up = TRUE
    /\ crashes = 0
    /\ now = 0
    /\ deployMutex = 0
    /\ pc = [r \in Requests |-> "lock"]
    /\ req = [r \in Requests |-> NoRequest]
    /\ dep = [r \in Requests |-> NoDeployment]
    /\ resp = [r \in Requests |-> NoResponse]
    /\ encoded = [r \in Requests |-> <<>>]
    /\ logs = [r \in Requests |-> <<>>]
    /\ disk = InitDisk(prog)
    /\ walk = [r \in Requests |-> 0]
    /\ cmds = [r \in Requests |-> <<>>]
    /\ results = [r \in Requests |-> <<>>]
    /\ locked = [r \in Requests |-> FALSE]
    /\ entryDisk = [r \in Requests |-> InitDisk(prog)]
    /\ pub = NoPublish
    /\ run = NoRun

RunSpec == RunInit /\ [][RunNext]_vars

\* ---------------------------------------------------------------- fairness
\* The Go scheduler runs every runnable goroutine, and every external
\* command exits or is cut off by its timeout, so a handler that can take a
\* step takes it.  Two steps wait for somebody else and get no fairness:
\* Lock waits for the holder, and Decode returns only when the client has
\* sent its body (http.ListenAndServe(":8080", nil) sets no read timeout).
Progress(r) ==
    /\ pc[r] \notin {"lock", "decode"}
    /\ (MainStep(r) \/ CopyStep(r) \/ SwapStep(r))

LiveSpec == Spec /\ \A r \in Requests : WF_vars(Progress(r))

\* Inside runCommand every goroutine that can run does, a running child
\* goes on until it exits or is killed, and the timer fires.
RunLiveSpec == RunSpec /\ WF_vars(RunNext)

\* ---------------------------------------------------------- handler panics
\* A run-time panic in deployHandler: the goroutine unwinds through the
\* deferred calls registered so far, last registered first (a panic inside
\* one of them goes on with the next); net/http recovers the panic and
\* closes the connection, so a handler that had written nothing leaves its
\* caller without a response.  FirstDeferred(r) is the deferred call the
\* unwinding starts with.
FirstDeferred(r) ==
    CASE prog = "main" ->
            IF pc[r] # "encode" /\ dep[r].Status # "" THEN "encode" ELSE "unlock"
      [] prog = "copy" ->
            IF pc[r] \in {"clone", "cloneWait", "install", "installWait", "build",
                          "buildWait", "verify", "mkDeployDir", "copy"}
            THEN "rmTemp"
            ELSE IF pc[r] \in {"mkTemp", "rmTemp"} THEN "encode" ELSE "unlock"
      [] OTHER ->
            IF pc[r] \in {"auth", "decode", "validate", "mkdir", "rmBuild"}
            THEN "unlock" ELSE "rmBuild"

\* The requests whose handler may panic.
Panicky == 1..MaxPanics

Panic(r) ==
    /\ up
    /\ r \in Panicky
    /\ pc[r] \notin {"lock", "unlock", "done", "lost"}
    /\ pc' = Set(pc, r, FirstDeferred(r))
    /\ pub' = IF pub.active /\ pub.by = r THEN [pub EXCEPT !.active = FALSE] ELSE pub
    /\ UNCHANGED <<prog, run, up, crashes, now, deployMutex, req, dep, resp, encoded,
                   logs, disk, walk, cmds, results, locked, entryDisk>>

\* The handlers that C12 is about, main.go's and part_002's, with panics.
\* The mutex lives in the process, so the clock and a restart of the
\* process are left out.
InitPanic == Init /\ prog \in {"main", "swap"}

NextPanic ==
    \/ \E r \in Requests : MainStep(r)
    \/ \E r \in Requests : SwapStep(r)
    \/ \E r \in Requests : Panic(r)

SpecPanic == InitPanic /\ [][NextPanic]_vars

\* ================================================================== claims
InHandler(r) == pc[r] \notin {"lock", "done", "lost"}
Range(s) == {s[i] : i \in 1..Len(s)}
IsPrefix(s, t) == Len(s) <= Len(t) /\ SubSeq(t, 1, Len(s)) = s

\* The stages of request r that have ended, and how one of them ended.
Ended(r) == {cmds[r][i] : i \in 1..Len(results[r])}
ResultOf(r, op) ==
    results[r][CHOOSE i \in 1..Len(results[r]) : cmds[r][i] = op]
EndedWith(r, op, err) == op \in Ended(r) /\ ResultOf(r, op).err = err
Failed(r, op) == op \in Ended(r) /\ ResultOf(r, op).err # "nil"

\* C1: at most one request is inside the deployment pipeline at any instant;
\* a request that has called deployMutex.Lock while another holds the mutex
\* takes no pipeline step before the holder has returned: whoever is past
\* Lock and has not returned is the one holder of the mutex.
C1_OneRequestInPipeline ==
    /\ \A r \in Requests : InHandler(r) => deployMutex = r
    /\ \A r1, r2 \in Requests : InHandler(r1) /\ InHandler(r2) => r1 = r2

C1_Witness ==
    \E r1, r2 \in Requests :
        /\ r1 # r2
        /\ pc[r1] = "buildWait" /\ deployMutex = r1
        /\ pc[r2] = "lock"

\* C2: while the swap-based handler publishes, the serving location static
\* holds at every instant the complete previous tree or the complete new one.
C2_ReadersSeeOldOrNew ==
    (prog = "swap" /\ up /\ pub.active) => disk[Static] \in {pub.old, pub.new}

\* C3: after a crash between the steps of the publish of a server that was
\* serving an artifact tree, and a restart, static holds the complete old
\* tree or the complete new one, never an empty or mixed tree.
C3_CrashLeavesOldOrNew ==
    (prog = "swap" /\ up /\ pub.interrupted /\ pub.old.files # {})
        => disk[Static] \in {pub.old, pub.new}

\* C4 as stated: when the final rename has failed after static was moved
\* aside, the handler returns with static holding the original tree and the
\* request reported as failed.
C4_RollbackAlwaysRestores ==
    \A r \in Requests :
        (/\ prog = "swap" /\ pc[r] \in {"rmBuild", "unlock"}
         /\ EndedWith(r, "renameOld", "nil") /\ Failed(r, "renameNew"))
        => (pub.by = r /\ disk[Static] = pub.old /\ resp[r].code = 500)

\* C4 as amended: the same, provided the rollback rename itself succeeds.
C4_RollbackRestores ==
    \A r \in Requests :
        (/\ prog = "swap" /\ pc[r] \in {"rmBuild", "unlock"}
         /\ EndedWith(r, "renameOld", "nil") /\ Failed(r, "renameNew")
         /\ EndedWith(r, "rollback", "nil"))
        => (/\ pub.by = r /\ disk[Static] = pub.old
            /\ ~disk[StaticOld].exists
            /\ resp[r] = HttpError("Deployment failed", 500))

C4_Witness ==
    \E r \in Requests :
        /\ prog = "swap" /\ pc[r] = "unlock"
        /\ EndedWith(r, "renameOld", "nil") /\ Failed(r, "renameNew")
        /\ EndedWith(r, "rollback", "nil")
        /\ pub.old.files # {} /\ disk[Static] = pub.old

\* C5: the outcome reported to the caller when the final rename and the
\* rollback both failed differs from the one reported when the final rename
\* failed and the rollback succeeded.
C5_UnrecoverableIsDistinct ==
    \A r1, r2 \in Requests :
        (/\ prog = "swap"
         /\ resp[r1] # NoResponse /\ resp[r2] # NoResponse
         /\ "Rollback failed" \in Range(logs[r1])
         /\ "Atomic swap failed" \in Range(logs[r2])
         /\ "Rollback failed" \notin Range(logs[r2]))
        => resp[r1] # resp[r2]

\* C6: a reader of static/deployments/<ID> sees nothing there or the
\* complete final build output, never a partially written tree.
CompleteOutput(tree) ==
    IF prog = "main" THEN HasDist(tree)
    ELSE \E r \in Requests : tree = Published(r)

C6_NoPartialTreeServed ==
    prog \in {"main", "copy"} =>
        \A id \in Seconds :
            ~disk[DeploymentDir(id)].exists \/ CompleteOutput(disk[DeploymentDir(id)])

\* C7: in main.go the stages run in the order clone, prisma generate, prisma
\* migrate, install, build, verify (the two hook commands only where the
\* hook applies); no stage runs twice or is skipped; once a stage has
\* failed no later stage is started and the deployment ends failed; a
\* deployment ends success only after every stage ended without error.
Pipeline(hook) ==
    <<"clone">> \o (IF hook THEN <<"generate", "migrate">> ELSE <<>>)
        \o <<"install", "build", "verify">>

HookApplies(r) ==
    /\ req[r].Framework = "node-prisma"
    /\ Entry("prisma/schema.prisma", 0, r) \in disk[buildPath(r)].files

C7_StagesInOrderStopAtFailure ==
    \A r \in Requests :
        (prog = "main" /\ dep[r].Status # "") =>
            /\ IsPrefix(cmds[r], Pipeline(HookApplies(r)))
            /\ Len(results[r]) \in {Len(cmds[r]) - 1, Len(cmds[r])}
            /\ \A i \in 1..Len(results[r]) :
                    results[r][i].err # "nil" =>
                        /\ i = Len(cmds[r])
                        /\ dep[r].Status = "failed"
                        /\ pc[r] \in {"encode", "unlock"}
            /\ pc[r] \in {"encode", "unlock"} =>
                    /\ dep[r].Status \in {"success", "failed"}
                    /\ dep[r].Status = "failed" =>
                            \/ cmds[r] = <<>> /\ dep[r].Error[1] = "Failed to create build directory"
                            \/ /\ Len(results[r]) = Len(cmds[r])
                               /\ results[r][Len(results[r])].err # "nil"
                    /\ dep[r].Status = "success" <=>
                            /\ cmds[r] = Pipeline(HookApplies(r))
                            /\ Len(results[r]) = Len(cmds[r])
                            /\ \A i \in 1..Len(results[r]) : results[r][i].err = "nil"

C7_Witness ==
    \E r \in Requests :
        /\ prog = "main" /\ pc[r] = "unlock"
        /\ dep[r].Status = "failed"
        /\ cmds[r] = <<"clone", "generate", "migrate", "install", "build">>
        /\ results[r][5].err = "command timed out"

\* C8 as stated: the returned record's stage outputs hold an entry for every
\* stage attempted, the verify stage included, and none for a stage never
\* reached.
Stages == {"clone", "hook", "install", "build", "verify"}
StageOf(cmd) == IF cmd \in {"generate", "migrate"} THEN "hook" ELSE cmd
OutputField(stage) ==
    CASE stage = "clone" -> "Clone"
      [] stage = "hook" -> "Prisma"
      [] stage = "install" -> "Install"
      [] stage = "build" -> "Build"
      [] OTHER -> "Verify"
HasEntry(outputs, field) == field \in DOMAIN outputs /\ outputs[field] # <<>>
Attempted(r) == {StageOf(c) : c \in Range(cmds[r])}

OutputOf(r, cmd) == IF cmd \in Ended(r) THEN ResultOf(r, cmd).output ELSE <<>>
ExpectedOutputs(r) ==
    [Clone |-> OutputOf(r, "clone"),
     Install |-> OutputOf(r, "install"),
     Build |-> OutputOf(r, "build"),
     Prisma |-> OutputOf(r, "generate")
                   \o (IF "migrate" \in Ended(r)
                       THEN <<"\n">> \o OutputOf(r, "migrate") ELSE <<>>)]

ValidationRejections ==
    {HttpError("Invalid request payload", 400),
     HttpError("Invalid framework", 400),
     HttpError("Invalid repository URL", 400)}

C9_RejectedBeforeGate ==
    \A r \in Requests :
        (prog \in {"main", "swap"} /\ resp[r] \in ValidationRejections) => ~locked[r]

\* C10: in main.go a request whose framework is not in validFrameworks is
\* rejected with no Deployment built, no command started and the disk as it
\* was when the handler began.
C10_UnknownFrameworkLeavesNoTrace ==
    \A r \in Requests :
        (/\ prog = "main" /\ req[r].decoded
         /\ req[r].Framework \notin validFrameworks
         /\ pc[r] # "validate")
        => /\ pc[r] = "unlock" /\ deployMutex = r
           /\ resp[r] = HttpError("Invalid framework", 400)
           /\ dep[r] = NoDeployment /\ encoded[r] = <<>>
           /\ cmds[r] = <<>>
           /\ disk = entryDisk[r]

C10_Witness ==
    \E r \in Requests :
        /\ prog = "main" /\ pc[r] = "unlock"
        /\ req[r].Framework = "cobol-web"
        /\ resp[r] = HttpError("Invalid framework", 400)
        /\ \E id \in Seconds : disk[DeploymentDir(id)].exists

\* C11: in main.go a request whose repository URL is empty or not well
\* formed is rejected before the pipeline starts: no Deployment is built for
\* it, no directory is created and no command (git clone first of all) is
\* started.
C11_BadURLRejectedBeforePipeline ==
    \A r \in Requests :
        (/\ prog = "main" /\ req[r].decoded
         /\ ~ValidRepoURL(req[r].RepoURL))
        => /\ dep[r] = NoDeployment /\ encoded[r] = <<>>
           /\ cmds[r] = <<>>
           /\ disk = entryDisk[r]

\* C12: on every exit path of deployHandler (rejection, failure of a stage,
\* publish failure, success, panic) the mutex is released: deployMutex is
\* held only by a request that is still inside its handler, never by one
\* that has returned, so that a waiting request can take it.
C12_GateReleasedOnEveryExit ==
    /\ \A r \in Requests : pc[r] = "done" => deployMutex # r
    /\ deployMutex \in {0} \cup {r \in Requests : InHandler(r)}

C12_Witness ==
    \E r1, r2 \in Requests :
        /\ r1 # r2
        /\ pc[r1] = "done" /\ resp[r1] = NoResponse
        /\ deployMutex = r2 /\ InHandler(r2)

\* C13: in main.go every request that holds deployMutex eventually releases it, and
\* every accepted deployment eventually reaches status success or failed,
\* given only that every external command ends.
C13_GateEventuallyReleased ==
    \A r \in Requests :
        /\ (prog = "main" /\ deployMutex = r) ~> (deployMutex # r)
        /\ (prog = "main" /\ dep[r].Status = "started")
                ~> (dep[r].Status \in {"success", "failed"})

\* C14: once nothing but the return is left of deployHandler, the workspace
\* of every deployment that created one is gone, whether it ended success
\* or failed: static/deployments/<ID> in main.go, the build- temp directory
\* in part_001.
Workspace(r) == IF prog = "main" THEN buildPath(r) ELSE TempDir(r)

C14_WorkspaceGoneAtReturn ==
    \A r \in Requests :
        (/\ prog \in {"main", "copy"} /\ pc[r] = "unlock"
         /\ dep[r].Status # "")
        => ~disk[Workspace(r)].exists

\* C15: the status of a Deployment goes from its initial value "started"
\* to exactly one of success and failed and never changes after that (the
\* record itself ends with the call that owns it); every record handed to
\* the caller, serialized by deployHandler or carried by the response of
\* Execute, has status success or failed.
Terminal == {"success", "failed"}

StatusStep(r) ==
    \/ dep'[r].Status = dep[r].Status
    \/ dep[r].Status = "" /\ dep'[r].Status = "started"
    \/ dep[r].Status = "started" /\ dep'[r].Status \in Terminal
    \/ /\ dep[r].Status \in Terminal /\ dep'[r] = NoDeployment
       /\ pc[r] \in {"unlock", "return"} /\ pc'[r] = "done"

C15_StatusOnlyForward ==
    [][\A r \in Requests :
            /\ StatusStep(r)
            /\ \A i \in 1..Len(encoded'[r]) : encoded'[r][i].Status \in Terminal
            /\ pc'[r] \in {"unlock", "return"} /\ prog = "main"
                    => encoded'[r] \in {<<>>, <<dep'[r]>>}]_vars

C15_Witness ==
    \E r \in Requests :
        /\ prog = "main" /\ pc[r] = "unlock"
        /\ encoded[r] = <<dep[r]>> /\ dep[r].Status = "success"

\* C16: at every instant the Error of a Deployment is non-empty only if
\* its status is failed; it is written at most once; a deployment that has
\* failed has a non-empty Error that names the failing step.
FailureMessages ==
    {"Failed to create build directory", "Clone failed", "Prisma generate failed",
     "Prisma migrate failed", "npm install failed", "npm build failed",
     "Build output missing", "Failed to create directory", "Prisma setup failed",
     "Panic"}

C17_DeployPathOnlyOnSuccess ==
    \A r \in Requests :
        (prog \in {"main", "copy"} /\ pc[r] = "unlock") =>
            \A i \in 1..Len(encoded[r]) :
                /\ encoded[r][i].Status = "failed" => encoded[r][i].DeployPath = <<>>
                /\ encoded[r][i].Status = "success" => encoded[r][i].DeployPath # <<>>

\* C18: two deployments accepted during one process lifetime never get the
\* same ID.  A directory static/deployments/<ID> exists only once a
\* deployment with that ID has made it, so a deployment about to make its
\* directory (the workspace in main.go, the publish directory in part_001)
\* never finds it made by an earlier one.
C18_FreshIDPerDeployment ==
    \A r \in Requests :
        /\ (prog = "main" /\ pc[r] = "mkdir") => ~disk[buildPath(r)].exists
        /\ (prog = "copy" /\ pc[r] = "mkDeployDir") => ~disk[deployDir(r)].exists

\* C19: in both implementations of runCommand, a call whose command had not
\* exited by the deadline (the child was killed) returns the timed-out
\* error, which is not the error of a non-zero exit, together with the
\* combined output the child had written until it was killed.
C19_TimeoutKeepsOutput ==
    (run.caller = "returned" /\ run.child = "killed") =>
        /\ run.ret.err = "command timed out"
        /\ run.ret.err # "exit status 1"
        /\ run.ret.output = Chunks(run.out)

\* C20: after part_002's runCommand has returned on its timeout path,
\* nothing it started is left: the child is not running, and the helper
\* goroutine gets past its send on the channel done and finishes.
C20_NothingLeftAfterTimeout ==
    (prog = "swap" /\ run.caller = "returned" /\ run.ret.err = "command timed out")
        ~> (run.child # "running" /\ run.helper = "finished")

\* C21: a panic anywhere inside Deployer.Execute does not reach the caller;
\* the deployment ends failed with a non-empty Error, and Execute returns a
\* response that carries the record, not a nil response.
PanicRecovered(r) ==
    /\ prog = "exec" /\ pc[r] = "return"
    /\ dep[r].Error # <<>> /\ dep[r].Error[1] = "Panic"

C21_PanicStillReturnsRecord ==
    \A r \in Requests :
        PanicRecovered(r) =>
            /\ dep[r].Status = "failed"
            /\ resp[r] = ExecResponse
            /\ encoded[r] = <<dep[r]>>

\* C22: the hook starts prisma generate if and only if the framework is
\* node-prisma and prisma/schema.prisma is in the cloned tree, and prisma
\* migrate deploy right after a generate that ended without error; in every
\* other case it starts no command, leaves Outputs.Prisma empty and the
\* pipeline goes on with install (main.go and Deployer.Execute).
SchemaPath == Entry("prisma/schema.prisma", 0, 0)

HookCondition(r) ==
    /\ dep[r].Framework = "node-prisma"
    /\ \E e \in disk[DeploymentDir(dep[r].ID)].files : e.name = SchemaPath.name

PastHook(r) ==
    /\ dep[r].Status # "" /\ EndedWith(r, "clone", "nil")
    /\ pc[r] # "hook"

\* The handler has started the command of this stage or is about to.
Started(r, stage) == stage \in Range(cmds[r]) \/ pc[r] = stage

NextAfterClone(r, stage) ==
    IF Len(cmds[r]) >= 2 THEN cmds[r][2] = stage ELSE pc[r] \in {stage, "recover"}

C22_HookOnlyForPrismaWithSchema ==
    \A r \in Requests :
        (prog \in {"main", "exec"} /\ PastHook(r)) =>
            /\ Started(r, "generate") <=> HookCondition(r)
            /\ Started(r, "migrate") <=> EndedWith(r, "generate", "nil")
            /\ HookCondition(r) => NextAfterClone(r, "generate")
            /\ ~HookCondition(r) =>
                    /\ dep[r].Outputs.Prisma = <<>>
                    /\ NextAfterClone(r, "install")
                    /\ Len(cmds[r]) = 1 => dep[r].Status = "started"

C22_Witness ==
    \E r \in Requests :
        /\ prog = "exec" /\ PastHook(r)
        /\ dep[r].Framework = "node-prisma" /\ ~HookCondition(r)
        /\ cmds[r] = <<"clone", "install">>
        /\ dep[r].Outputs.Prisma = <<>>

\* C23: in main.go's runCommand a command that exits by itself before the
\* deadline is never reported as timed out, whatever the order of its exit
\* and the expiry of the deadline: the timed-out error is returned only for
\* a child the deadline killed, and a child that exited with status zero
\* yields a nil error.
C23_ExitedIsNeverTimedOut ==
    (prog = "main" /\ run.caller = "returned") =>
        /\ run.ret.err = "command timed out" => run.child = "killed"
        /\ run.child = "zero" => run.ret.err = "nil"

\* C24: in part_002 a request that ends before the publish step
\* (unauthorized, invalid payload or URL, clone failure, no package.json,
\* install or build failure, missing dist, failed copy into static_new)
\* leaves the serving directory static and its content exactly as the
\* request found them.
BeforePublishFailures ==
    {HttpError("Unauthorized", 401),
     HttpError("Invalid request payload", 400),
     HttpError("Invalid repository URL", 400),
     HttpError("Failed to create build directory", 500),
     HttpError("Failed to clone repository", 500),
     HttpError("No package.json found", 400),
     HttpError("npm install failed", 500),
     HttpError("npm build failed", 500),
     HttpError("Build output 'dist' not found", 500),
     HttpError("Failed to prepare deployment", 500)}

C24_EarlyFailureLeavesStatic ==
    \A r \in Requests :
        (/\ prog = "swap" /\ pc[r] \in {"rmBuild", "unlock"}
         /\ resp[r] \in BeforePublishFailures)
        => /\ "renameOld" \notin Range(cmds[r])
           /\ disk[Static] = entryDisk[r][Static]

C24_Witness ==
    \E r \in Requests :
        /\ prog = "swap" /\ pc[r] = "unlock"
        /\ resp[r] = HttpError("Failed to prepare deployment", 500)
        /\ entryDisk[r][Static].files # {}
        /\ disk[StaticNew].files # {}
        /\ disk[Static] = entryDisk[r][Static]

====
